---- MODULE Spec2Model ----
(***************************************************************************)
(* Model of cimfs-rs: the image session (cimfs/src/image.rs), the object   *)
(* descriptor (cimfs/src/object.rs) and the image-build pipeline of        *)
(* cimutil (cimfs/src/bin/cimutil.rs).                                     *)
(*                                                                         *)
(* The native engine (CimCreateImage, CimCreateFile, CimWriteStream,       *)
(* CimCloseStream, CimCommitImage, CimCloseImage) and the OS calls         *)
(* (CreateFileW, GetFileInformationByHandleEx, GetFileSizeEx,              *)
(* DeviceIoControl, ReadFile, CloseHandle) are external: each call's       *)
(* outcome is an input of the action that makes it.  The model records     *)
(* every handle the engine and the OS hand out and every close of it.      *)
(***************************************************************************)
EXTENDS Integers, Sequences, FiniteSets, TLC

(***************************************************************************)
(* Bounds of the model.                                                    *)
(***************************************************************************)
\* image handles the engine hands out in one run
MaxImages == 2
\* source handles CreateFileW hands out in one run
MaxSources == 2
\* length of the argument list of cimutil new / fork
MaxArgs == 2

(***************************************************************************)
(* Program constants.                                                      *)
(***************************************************************************)
\* image.rs:260  BytesMut::with_capacity(65536): the copy buffer
BufLen == 65536

\* Option::None of Image::image_handle; handles are 1, 2, ...
None == 0
\* Option<GUID>::None (Image::volume, image.rs:52, 63)
NoGuid == "none"

(***************************************************************************)
(* Results of the calls.  Every error is a windows::core::Error; the names *)
(* are those of the error taxonomy, by the call that produced the error.   *)
(***************************************************************************)
Ok == "Ok"
\* image.rs:306, 324  Err(STATUS_UNSUCCESSFUL) of the else branches
NotOpen == "NotOpen"
\* image.rs:97  the HRESULT of CimCreateImage
CreateFailed == "CreateFailed"
\* image.rs:319  the HRESULT of CimCommitImage
CommitFailed == "CommitFailed"

\* The calls of create_file that can fail, in the order the code makes them
\* (image.rs:125, 137, 168, 180, 245, 268, 279, 299), and "none".
FailSteps ==
  {"none", "CreateFileW", "GetFileInformationByHandleEx", "GetFileSizeEx",
   "DeviceIoControl", "CimCreateFile", "ReadFile", "CimWriteStream",
   "CloseHandle"}

\* The error create_file returns when the named call fails (the `?` after it).
ErrorOf(step) ==
  CASE step = "CreateFileW" -> "InvalidPath"
    [] step = "GetFileInformationByHandleEx" -> "MetadataFailed"
    [] step = "GetFileSizeEx" -> "MetadataFailed"
    [] step = "DeviceIoControl" -> "BufferOverflow"
    [] step = "CimCreateFile" -> "CreateFileFailed"
    [] step = "ReadFile" -> "ReadFailed"
    [] step = "CimWriteStream" -> "WriteFailed"
    [] step = "CloseHandle" -> "CloseFailed"
    [] OTHER -> Ok

Min(a, b) == IF a < b THEN a ELSE b

(***************************************************************************)
(* A native call as the engine or the OS sees it: its name, the image      *)
(* handle passed (None when the call takes none), a number (the file size  *)
(* of CimCreateFile, the byte count of ReadFile and CimWriteStream), the   *)
(* in-image path of CimCreateFile, and whether the call succeeded.         *)
(***************************************************************************)
Call(name, h, n, path, ok) ==
  [call |-> name, h |-> h, n |-> n, path |-> path, ok |-> ok]

\* A call that takes neither an image handle, a number nor a path.
Plain(name, ok) == Call(name, None, 0, <<>>, ok)

\* Drop of a CimImageHandleWrapper: CimCloseImage(self.handle).
DropWrapper(h) == <<Call("CimCloseImage", h, 0, <<>>, TRUE)>>

\* Drop of an Option<CimImageHandleWrapper>: nothing for None.
DropOption(h) == IF h = None THEN <<>> ELSE DropWrapper(h)

(***************************************************************************)
(* Image::create.  `old` is image_handle before the call, `new` the handle *)
(* the engine writes when it accepts.  The assignment of line 101 drops    *)
(* the value the field held.  (Line 84 passes the engine a pointer into a  *)
(* temporary HSTRING that is already freed: what the engine reads as the   *)
(* base image name is arbitrary, so `accepted` is free for a fork too.)    *)
(***************************************************************************)
\* Faulty variant: the handle is stored before the engine's answer is read.
HandleAfterCreate_early(old, new, accepted) == new

\* the handle field after the call
HandleAfterCreate(old, new, accepted) == IF accepted THEN new ELSE old

\* Faulty variant: the value the field held is forgotten, not dropped.
DroppedByCreate_leak(old, accepted) == <<>>

\* the value the assignment of line 101 drops
DroppedByCreate(old, accepted) == IF accepted THEN DropOption(old) ELSE <<>>

create_run(old, new, existing, accepted) ==
  [op |-> "create",
   before |-> old,
   result |-> IF accepted THEN Ok ELSE CreateFailed,
   calls |-> <<Call("CimCreateImage", None, 0, existing, accepted)>>
             \o DroppedByCreate(old, accepted),
   after |-> HandleAfterCreate(old, new, accepted)]

(***************************************************************************)
(* The copy loop of create_file (image.rs:266-294), from pass `pass` on,   *)
(* with `remaining` bytes of the source unread.  ReadFile fills at most    *)
(* the 65536-byte buffer; the write carries the bytes just read; the loop  *)
(* ends after the write that follows a read of zero bytes.  `fail` names   *)
(* the call that fails and failAt the pass in which it does.               *)
(***************************************************************************)
\* Faulty variant: one read and one write, and no write of zero bytes.
CopyLoop_once(remaining, pass, fail, failAt) ==
  [calls |-> <<Call("ReadFile", None, Min(remaining, BufLen), <<>>, TRUE),
               Call("CimWriteStream", None, Min(remaining, BufLen), <<>>,
                    TRUE)>>,
   result |-> Ok]

RECURSIVE CopyLoop(_, _, _, _)
CopyLoop(remaining, pass, fail, failAt) ==
  LET read == Min(remaining, BufLen)
      rd == Call("ReadFile", None, read, <<>>, TRUE)
      wr == Call("CimWriteStream", None, read, <<>>, TRUE)
  IN IF fail = "ReadFile" /\ failAt = pass
       THEN [calls |-> <<Call("ReadFile", None, 0, <<>>, FALSE)>>,
             result |-> ErrorOf("ReadFile")]
     ELSE IF fail = "CimWriteStream" /\ failAt = pass
       THEN [calls |-> <<rd, Call("CimWriteStream", None, read, <<>>, FALSE)>>,
             result |-> ErrorOf("CimWriteStream")]
     ELSE IF read = 0
       THEN [calls |-> <<rd, wr>>, result |-> Ok]
     ELSE LET rest == CopyLoop(remaining - read, pass + 1, fail, failAt)
          IN [calls |-> <<rd, wr>> \o rest.calls, result |-> rest.result]

\* Faulty variant: the loop runs for a directory too.
CopyOf_always(isDir, size, fail, failAt) == CopyLoop(size, 1, fail, failAt)

\* The copy under its guard `if !is_dir` (image.rs:263)
CopyOf(isDir, size, fail, failAt) ==
  IF isDir THEN [calls |-> <<>>, result |-> Ok]
  ELSE CopyLoop(size, 1, fail, failAt)

(***************************************************************************)
(* The body of create_file once the handle is taken (image.rs:115-303):    *)
(* the native calls it makes, in order, up to the first that fails, and    *)
(* its result.  h is the image handle, rel the in-image path, isDir and    *)
(* isReparse the attributes of the source, size its size in bytes.         *)
(***************************************************************************)
CreateFileBody(h, rel, isDir, isReparse, size, fail, failAt) ==
  LET open == Plain("CreateFileW", fail # "CreateFileW")
      info == Plain("GetFileInformationByHandleEx",
                    fail # "GetFileInformationByHandleEx")
      fsize == Plain("GetFileSizeEx", fail # "GetFileSizeEx")
      ioctl == Plain("DeviceIoControl", fail # "DeviceIoControl")
      FileSize == IF isDir THEN 0 ELSE size
      cim == Call("CimCreateFile", h, FileSize, rel, fail # "CimCreateFile")
      sizeCalls == IF isDir THEN <<>> ELSE <<fsize>>
      reparseCalls == IF isReparse THEN <<ioctl>> ELSE <<>>
      copy == CopyOf(isDir, size, fail, failAt)
      Fail(calls, step) == [calls |-> calls, result |-> ErrorOf(step)]
  IN IF ~open.ok THEN Fail(<<open>>, "CreateFileW")
     ELSE IF ~info.ok THEN Fail(<<open, info>>, "GetFileInformationByHandleEx")
     ELSE IF ~isDir /\ ~fsize.ok
       THEN Fail(<<open, info, fsize>>, "GetFileSizeEx")
     ELSE IF isReparse /\ ~ioctl.ok
       THEN Fail(<<open, info>> \o sizeCalls \o <<ioctl>>, "DeviceIoControl")
     ELSE IF ~cim.ok
       THEN Fail(<<open, info>> \o sizeCalls \o reparseCalls \o <<cim>>,
                 "CimCreateFile")
     ELSE IF copy.result # Ok
       THEN [calls |-> <<open, info>> \o sizeCalls \o reparseCalls \o <<cim>>
                       \o copy.calls,
             result |-> copy.result]
     ELSE [calls |-> <<open, info>> \o sizeCalls \o reparseCalls \o <<cim>>
                     \o copy.calls
                     \o <<Plain("CimCloseStream", TRUE),
                          Plain("CloseHandle", fail # "CloseHandle")>>,
           result |-> ErrorOf(IF fail = "CloseHandle" THEN fail ELSE "none")]

(***************************************************************************)
(* Image::create_file.  Line 114 takes the wrapper out of the field into a *)
(* local; line 302 puts it back, and is reached only when no call failed.  *)
(* Every `?` returns with the local still holding the wrapper, and the     *)
(* local's drop closes the image handle.                                   *)
(***************************************************************************)
\* Faulty variant: the handle is put back on the error paths too.
HandleAfterCreateFile_restored(h, result) == h

\* the handle field after the call: None from the take unless line 302 ran
HandleAfterCreateFile(h, result) == IF result = Ok THEN h ELSE None

\* Faulty variant: the wrapper is forgotten on an early return.
DroppedByCreateFile_leak(h, result) == <<>>

\* the drop of the local image_handle_wrapper on an early return
DroppedByCreateFile(h, result) == IF result = Ok THEN <<>> ELSE DropWrapper(h)

\* Faulty variant: the source is opened before the handle is looked at.
create_file_no_handle_opens(h) ==
  [op |-> "create_file", before |-> h, result |-> NotOpen,
   calls |-> <<Plain("CreateFileW", TRUE)>>, after |-> h]

\* the else branch of the take (image.rs:305-307): no call is made
create_file_no_handle(h) ==
  [op |-> "create_file", before |-> h, result |-> NotOpen, calls |-> <<>>,
   after |-> h]

create_file_run(h, rel, isDir, isReparse, size, fail, failAt) ==
  IF h = None
    THEN create_file_no_handle(h)
    ELSE LET body == CreateFileBody(h, rel, isDir, isReparse, size, fail, failAt)
         IN [op |-> "create_file",
             before |-> h,
             result |-> body.result,
             calls |-> body.calls \o DroppedByCreateFile(h, body.result),
             after |-> HandleAfterCreateFile(h, body.result)]

(***************************************************************************)
(* Image::commit.  Line 315 takes the wrapper into a local of the if-let;  *)
(* the local is dropped at the end of the block or at the `?` of line 319. *)
(***************************************************************************)
\* Faulty variant: a rejected commit leaves the handle in the field.
HandleAfterCommit_kept(h, accepted) == IF accepted THEN None ELSE h

\* the handle field after the call
HandleAfterCommit(h, accepted) == None

\* the drop of the local image_handle
DroppedByCommit(h, accepted) == DropWrapper(h)

commit_run(h, accepted) ==
  IF h = None
    THEN [op |-> "commit", before |-> h, result |-> NotOpen,
          calls |-> <<>>, after |-> h]
    ELSE [op |-> "commit",
          before |-> h,
          result |-> IF accepted THEN Ok ELSE CommitFailed,
          calls |-> <<Call("CimCommitImage", h, 0, <<>>, accepted)>>
                    \o DroppedByCommit(h, accepted),
          after |-> HandleAfterCommit(h, accepted)]

(***************************************************************************)
(* Drop of an Image: the drop of its fields, of which image_handle alone   *)
(* has a Drop implementation (image.rs:413-419).                           *)
(***************************************************************************)
\* Faulty variant: the drop finalizes the image before closing it.
DroppedByDrop_commits(h) ==
  IF h = None THEN <<>>
  ELSE <<Call("CimCommitImage", h, 0, <<>>, TRUE)>> \o DropWrapper(h)

DroppedByDrop(h) == DropOption(h)

drop_run(h) ==
  [op |-> "drop", before |-> h, result |-> Ok,
   calls |-> DroppedByDrop(h), after |-> None]

\* Image::new: no native call, no handle.
new_run ==
  [op |-> "new", before |-> None, result |-> Ok, calls |-> <<>>,
   after |-> None]

(***************************************************************************)
(* The engine and the OS, as far as the handles go.  images, sources and   *)
(* streams count the handles handed out (handle k is the k-th); the        *)
(* *Closes functions count the closes of each; commits counts the          *)
(* CimCommitImage calls of each image handle; added is the sequence of     *)
(* paths CimCreateFile accepted under each image handle; stale records     *)
(* that a call was made with an image handle that was closed before.       *)
(* create_file holds one source and one stream handle at a time, the last  *)
(* handed out, so a close of either closes that one.                       *)
(***************************************************************************)
Images == 1..(MaxImages + 1)
Sources == 1..(MaxSources + MaxArgs + 1)

EngineInit ==
  [images |-> 0,
   imageCloses |-> [h \in Images |-> 0],
   commits |-> [h \in Images |-> 0],
   added |-> [h \in Images |-> <<>>],
   stale |-> FALSE,
   sources |-> 0,
   sourceCloses |-> [s \in Sources |-> 0],
   streams |-> 0,
   streamCloses |-> [s \in Sources |-> 0]]

Bump(f, x) == [f EXCEPT ![x] = @ + 1]

EngineCall(e, c) ==
  CASE c.call = "CimCreateImage" ->
         IF c.ok THEN [e EXCEPT !.images = @ + 1] ELSE e
    [] c.call = "CimCloseImage" ->
         [e EXCEPT !.imageCloses = Bump(@, c.h)]
    [] c.call = "CimCommitImage" ->
         [e EXCEPT !.commits = Bump(@, c.h),
                   !.stale = @ \/ e.imageCloses[c.h] > 0]
    [] c.call = "CimCreateFile" ->
         [e EXCEPT !.stale = @ \/ e.imageCloses[c.h] > 0,
                   !.streams = IF c.ok THEN @ + 1 ELSE @,
                   !.added = IF c.ok THEN [@ EXCEPT ![c.h] = Append(@, c.path)]
                             ELSE @]
    [] c.call = "CimCloseStream" ->
         [e EXCEPT !.streamCloses = Bump(@, e.streams)]
    [] c.call = "CreateFileW" ->
         IF c.ok THEN [e EXCEPT !.sources = @ + 1] ELSE e
    [] c.call = "CloseHandle" ->
         [e EXCEPT !.sourceCloses = Bump(@, e.sources)]
    [] OTHER -> e

RECURSIVE EngineAfter(_, _)
EngineAfter(e, calls) ==
  IF calls = <<>> THEN e
  ELSE EngineAfter(EngineCall(e, Head(calls)), Tail(calls))

(***************************************************************************)
(* Paths.  A path is the sequence of its components as Path::components    *)
(* yields them: a normal name, "/" (RootDir), "." (CurDir), ".."           *)
(* (ParentDir) or a prefix, "C:" (Prefix::Disk), "UNC" (Prefix::UNC, with  *)
(* share "sh") or "VERB" (Prefix::Verbatim, with name "vb").               *)
(***************************************************************************)
Kind(c) ==
  CASE c = "/" -> "RootDir"
    [] c = "." -> "CurDir"
    [] c = ".." -> "ParentDir"
    [] c = "C:" -> "Disk"
    [] c = "UNC" -> "UNC"
    [] c = "VERB" -> "Verbatim"
    [] OTHER -> "Normal"

\* the share of the UNC prefix, the name of the verbatim prefix
Share(c) == "sh"
VerbatimName(c) == "vb"

(***************************************************************************)
(* The filesystem: a tree under one root, of which fs (a state variable)   *)
(* holds the absolute paths that exist.  The process runs in /w.           *)
(***************************************************************************)
Cwd == <<"w">>
Tree == {<<"w">>, <<"w", "a">>, <<"w", "a", "b">>, <<"w", "a", "b", "f">>}
\* /w/w is a file some states of the filesystem hold beside the tree
Files == {<<"w", "a", "b", "f">>, <<"w", "w">>}
IsFilePath(abs) == abs \in Files
\* FILE_ATTRIBUTE_REPARSE_POINT: /w/a/b is a junction
IsReparsePath(abs) == abs = <<"w", "a", "b">>
SizeOfPath(abs) == IF IsFilePath(abs) THEN BufLen + 5 ELSE 0

IsPrefixOf(p, q) == Len(p) <= Len(q) /\ SubSeq(q, 1, Len(p)) = p

\* The absolute path a path names, from the directory cur.
RECURSIVE Walk(_, _)
Walk(cur, path) ==
  IF path = <<>> THEN cur
  ELSE LET c == Head(path)
           k == Kind(c)
       IN Walk(CASE k = "Normal" -> Append(cur, c)
                 [] k = "ParentDir" ->
                      IF cur = <<>> THEN cur ELSE SubSeq(cur, 1, Len(cur) - 1)
                 [] k = "CurDir" -> cur
                 [] OTHER -> <<>>,
               Tail(path))

\* Faulty variant: every path canonicalizes.
Canonicalizes_always(files, path) == TRUE

\* Path::canonicalize succeeds when the path names something that exists.
Canonicalizes(files, path) == Walk(Cwd, path) \in files

\* Path::is_file
is_file(files, path) ==
  Walk(Cwd, path) \in files /\ IsFilePath(Walk(Cwd, path))

(***************************************************************************)
(* Object (object.rs).                                                     *)
(***************************************************************************)
Object_new(src) == [relative_path |-> <<>>, src |-> src]

\* Faulty variant: `..` removes the last name instead of going to the root.
ComponentStep_pops(acc, c) ==
  LET k == Kind(c)
  IN CASE k = "Verbatim" ->
            [acc EXCEPT !.relative_path = Append(@, VerbatimName(c))]
       [] k = "UNC" -> [acc EXCEPT !.relative_path = Append(@, Share(c))]
       [] k = "Disk" -> [acc EXCEPT !.root = <<c>>]
       [] k = "RootDir" -> [acc EXCEPT !.root = <<c>>]
       [] k = "CurDir" -> [acc EXCEPT !.root = Append(@, c)]
       [] k = "ParentDir" ->
            [acc EXCEPT !.relative_path =
                          IF @ = <<>> THEN @ ELSE SubSeq(@, 1, Len(@) - 1)]
       [] OTHER -> [acc EXCEPT !.relative_path = Append(@, c)]

\* The match on one component (object.rs:48-78): what it does to the
\* relative path and to the root.  root <<>> is None.
ComponentStep(acc, c) ==
  LET k == Kind(c)
  IN CASE k = "Verbatim" ->
            [acc EXCEPT !.relative_path = Append(@, VerbatimName(c))]
       [] k = "UNC" -> [acc EXCEPT !.relative_path = Append(@, Share(c))]
       [] k = "Disk" -> [acc EXCEPT !.root = <<c>>]
       [] k = "RootDir" -> [acc EXCEPT !.root = <<c>>]
       [] k \in {"CurDir", "ParentDir"} -> [acc EXCEPT !.root = Append(@, c)]
       [] OTHER -> [acc EXCEPT !.relative_path = Append(@, c)]

\* The loop over src.components() (object.rs:46-79): the relative path and
\* the root it leaves, from the values acc holds.
RECURSIVE ComponentsLoop(_, _)
ComponentsLoop(acc, comps) ==
  IF comps = <<>> THEN acc
  ELSE ComponentsLoop(ComponentStep(acc, Head(comps)), Tail(comps))

\* Faulty variant: the guard is gone and every call resolves again.
IsResolved_never(o) == FALSE

\* the guard of object.rs:38, negated: the relative path is set
IsResolved(o) == o.relative_path # <<>>

\* resolve_relative_path(false) on a descriptor (object.rs:37-81, 97).
ResolveSelf(files, o) ==
  IF IsResolved(o) THEN [ok |-> TRUE, obj |-> o, root |-> <<>>]
  ELSE IF ~Canonicalizes(files, o.src)
    THEN [ok |-> FALSE, obj |-> o, root |-> <<>>]
  ELSE LET r == ComponentsLoop([relative_path |-> <<>>, root |-> <<>>], o.src)
       IN [ok |-> TRUE,
           obj |-> [o EXCEPT !.relative_path = r.relative_path],
           root |-> r.root]

\* The loop over the ancestors (object.rs:84-93), longest first, from the
\* ancestor of k components on.
RECURSIVE AncestorsLoop(_, _, _, _, _)
AncestorsLoop(files, rel, root, k, acc) ==
  IF k = 0 THEN [ok |-> TRUE, ancestors |-> acc]
  ELSE LET a == SubSeq(rel, 1, k)
       IN IF is_file(files, a) THEN [ok |-> TRUE, ancestors |-> acc]
          ELSE LET r == ResolveSelf(files, Object_new(root \o a))
               IN IF ~r.ok THEN [ok |-> FALSE, ancestors |-> {}]
                  ELSE AncestorsLoop(files, rel, root, k - 1,
                                     acc \cup {r.obj})

\* Object::resolve_relative_path: the result, the descriptor afterwards and
\* the ancestors returned.
resolve_relative_path(files, o, parse_ancestors) ==
  LET r == ResolveSelf(files, o)
  IN IF IsResolved(o) \/ ~r.ok \/ ~parse_ancestors
       THEN [ok |-> r.ok, obj |-> r.obj, ancestors |-> {}]
     ELSE LET rel == r.obj.relative_path
              l == AncestorsLoop(files, rel, r.root,
                                 IF rel = <<>> THEN 0 ELSE Len(rel) - 1, {})
          IN [ok |-> l.ok, obj |-> r.obj, ancestors |-> l.ancestors]

\* Faulty variant: the stored path is handed out whatever it is.
get_relative_path_lenient(o) ==
  [ok |-> TRUE, result |-> Ok, path |-> o.relative_path]

\* Object::get_relative_path
get_relative_path(o) ==
  IF o.relative_path = <<>>
    THEN [ok |-> FALSE, result |-> "Unresolved", path |-> <<>>]
    ELSE [ok |-> TRUE, result |-> Ok, path |-> o.relative_path]

\* Faulty variant: the source path is handed out without a look at it.
get_src_path_unchecked(files, o) ==
  [ok |-> TRUE, result |-> Ok, path |-> Walk(Cwd, o.src)]

\* Faulty variant: a resolved descriptor answers from what it knew.
get_src_path_cached(files, o) ==
  IF o.relative_path # <<>> \/ Walk(Cwd, o.src) \in files
    THEN [ok |-> TRUE, result |-> Ok, path |-> Walk(Cwd, o.src)]
    ELSE [ok |-> FALSE, result |-> "InvalidPath", path |-> <<>>]

\* Object::get_src_path
get_src_path(files, o) ==
  IF Canonicalizes(files, o.src)
    THEN [ok |-> TRUE, result |-> Ok, path |-> Walk(Cwd, o.src)]
    ELSE [ok |-> FALSE, result |-> "InvalidPath", path |-> <<>>]

(***************************************************************************)
(* parse_objects_from_args (cimutil.rs:291-299): each path is resolved and *)
(* pushed; what resolve_relative_path returns besides the error is         *)
(* dropped.  The call site passes no argument, so parse_ancestors is an    *)
(* input of the model.                                                     *)
(***************************************************************************)
RECURSIVE parse_objects_from_args(_, _, _, _)
parse_objects_from_args(files, list, parse_ancestors, objects) ==
  IF list = <<>> THEN [ok |-> TRUE, objects |-> objects]
  ELSE LET r == resolve_relative_path(files, Object_new(Head(list)),
                                      parse_ancestors)
       IN IF ~r.ok THEN [ok |-> FALSE, objects |-> <<>>]
          ELSE parse_objects_from_args(files, Tail(list), parse_ancestors,
                                       Append(objects, r.obj))

(***************************************************************************)
(* State.                                                                  *)
(*   alive         an Image value exists (constructed and not dropped)     *)
(*   image_handle  Image::image_handle: None or the handle held            *)
(*   engine        the engine's and the OS's handles (EngineInit)          *)
(*   last          the last call on the session: its name, image_handle    *)
(*                 before and after, its result, the native calls it made  *)
(*   fs            the absolute paths that exist                           *)
(*   pc            where main of cimutil stands; "lib" when the session is *)
(*                 driven by a caller of the library instead               *)
(*   command       the parsed command line: subcommand and object paths    *)
(*   objects       the descriptors the loop of main has still to add       *)
(*   exit          what main returned: "Ok" or "Err"; "running" before     *)
(*   volume        Image::volume: NoGuid or the identifier cached          *)
(*   mounted       the identifiers the engine has mounted a volume under   *)
(***************************************************************************)
VARIABLES alive, image_handle, engine, last, fs, pc, command, objects, exit,
          volume, mounted

vars == <<alive, image_handle, engine, last, fs, pc, command, objects, exit,
          volume, mounted>>
\* Image::volume and the volumes the engine has mounted
volVars == <<volume, mounted>>
mainVars == <<fs, pc, command, objects, exit>>

\* The effect of a call on the session: the field, the engine, the record.
Returns(run) ==
  /\ image_handle' = run.after
  /\ engine' = EngineAfter(engine, run.calls)
  /\ last' = run

\* In-image paths and source attributes the session's callers pass.
RelPaths == {<<"a">>, <<"a", "f">>}
FileSizes == {0, 5, BufLen, BufLen + 5}
\* The calls a run can reach: no size query and no copy loop for a
\* directory (image.rs:163, 263), no reparse query without the attribute
\* (image.rs:175).  A failure of a call that is not reached is no input.
ReachedSteps(isDir, isReparse) ==
  FailSteps \ ((IF isDir THEN {"GetFileSizeEx", "ReadFile", "CimWriteStream"}
                ELSE {})
               \cup (IF isReparse THEN {} ELSE {"DeviceIoControl"}))
\* The size is read by GetFileSizeEx for a non-directory (image.rs:163-169)
\* and used from CimCreateFile on: it is no input of a run that ends before.
SizesOf(isDir, fail) ==
  IF isDir \/ fail \in {"CreateFileW", "GetFileInformationByHandleEx",
                        "GetFileSizeEx", "DeviceIoControl"}
    THEN {0} ELSE FileSizes
\* the passes the copy loop makes over a source of this size
NumPasses(size) == (size + BufLen - 1) \div BufLen + 1
\* the pass in which the read or the write fails
PassesOf(fail, size) ==
  IF fail \in {"ReadFile", "CimWriteStream"} THEN 1..NumPasses(size) ELSE {1}

NoCommand == [name |-> "", list |-> <<>>]

(***************************************************************************)
(* The session driven by a caller of the library: any call in any order.   *)
(***************************************************************************)
Init ==
  /\ alive = TRUE
  /\ image_handle = None
  /\ engine = EngineInit
  /\ last = new_run
  /\ fs = Tree
  /\ pc = "lib"
  /\ command = NoCommand
  /\ objects = <<>>
  /\ exit = "running"
  /\ volume = NoGuid
  /\ mounted = {}

new ==
  /\ pc = "lib"
  /\ ~alive
  /\ alive' = TRUE
  /\ Returns(new_run)
  /\ UNCHANGED mainVars
  /\ UNCHANGED volVars

create ==
  /\ pc = "lib"
  /\ alive
  /\ \E existing \in {<<>>, <<"base">>}, accepted \in BOOLEAN :
       /\ accepted => engine.images < MaxImages
       /\ Returns(create_run(image_handle, engine.images + 1, existing, accepted))
  /\ UNCHANGED <<alive, mainVars>>
  /\ UNCHANGED volVars

create_file ==
  /\ pc = "lib"
  /\ alive
  /\ image_handle # None => engine.sources < MaxSources
  /\ \E rel \in RelPaths, isDir \in BOOLEAN, isReparse \in BOOLEAN :
       \E fail \in ReachedSteps(isDir, isReparse) :
         \E size \in SizesOf(isDir, fail) :
           \E failAt \in PassesOf(fail, size) :
         Returns(create_file_run(image_handle, rel, isDir, isReparse, size,
                                 fail, failAt))
  /\ UNCHANGED <<alive, mainVars>>
  /\ UNCHANGED volVars

commit ==
  /\ pc = "lib"
  /\ alive
  /\ \E accepted \in BOOLEAN : Returns(commit_run(image_handle, accepted))
  /\ UNCHANGED <<alive, mainVars>>
  /\ UNCHANGED volVars

drop ==
  /\ pc = "lib"
  /\ alive
  /\ alive' = FALSE
  /\ Returns(drop_run(image_handle))
  /\ UNCHANGED mainVars
  /\ UNCHANGED volVars

Next == new \/ create \/ create_file \/ commit \/ drop

Spec == Init /\ [][Next]_vars

(***************************************************************************)
(* The image-build pipeline: main of cimutil for the subcommands New and   *)
(* Fork (cimutil.rs:163-256, 286), one action for each step of it.  After  *)
(* Image::new every return of main, the `?` ones included, drops the       *)
(* image: main_return.                                                     *)
(***************************************************************************)
\* the object paths of a command line
SrcPaths ==
  {<<"a">>, <<"a", "b">>, <<"a", "b", "f">>, <<"..", "w", "a">>, <<".">>,
   <<"x">>}
ArgLists == UNION {[1..n -> SrcPaths] : n \in 0..MaxArgs}

InitMain ==
  /\ alive = FALSE
  /\ image_handle = None
  /\ engine = EngineInit
  /\ last = new_run
  /\ fs = Tree
  /\ pc = "start"
  /\ command = NoCommand
  /\ objects = <<>>
  /\ exit = "running"
  /\ volume = NoGuid
  /\ mounted = {}

\* main returns Err before an image exists
Fails == pc' = "done" /\ exit' = "Err"
\* Faulty variant: the error is swallowed and main goes on.
FailsWithImage_ignored == pc' = pc /\ exit' = exit

\* main returns Err with the image in scope
FailsWithImage == pc' = "return" /\ exit' = "Err"

\* cimutil.rs:166-199, 223-231: the command line, the root, the names
main_start ==
  /\ pc = "start"
  /\ \E name \in {"New", "Fork"}, list \in ArgLists, rootOk \in BOOLEAN,
        namesOk \in BOOLEAN :
       /\ command' = [name |-> name, list |-> list]
       /\ IF rootOk /\ namesOk
            THEN pc' = "parse" /\ exit' = exit
            ELSE Fails
  /\ UNCHANGED <<alive, image_handle, engine, last, fs, objects>>
  /\ UNCHANGED volVars

\* cimutil.rs:203, 235
main_parse ==
  /\ pc = "parse"
  /\ \E parse_ancestors \in BOOLEAN :
       LET r == parse_objects_from_args(fs, command.list, parse_ancestors, <<>>)
       IN IF r.ok
            THEN objects' = r.objects /\ pc' = "create" /\ exit' = exit
            ELSE objects' = objects /\ Fails
  /\ UNCHANGED <<alive, image_handle, engine, last, fs, command>>
  /\ UNCHANGED volVars

\* cimutil.rs:206-208, 242-244: Image::new and create
main_create ==
  /\ pc = "create"
  /\ alive' = TRUE
  /\ \E accepted \in BOOLEAN :
       LET existing == IF command.name = "Fork" THEN <<"base">> ELSE <<>>
           run == create_run(None, engine.images + 1, existing, accepted)
       IN /\ Returns(run)
          /\ IF run.result = Ok
               THEN pc' = "loop" /\ exit' = exit
               ELSE FailsWithImage
  /\ UNCHANGED <<fs, command, objects>>
  /\ UNCHANGED volVars

\* What a call of an Object accessor leaves in `last`.
AccessorFailed(name, result) ==
  [op |-> name, before |-> image_handle, result |-> result, calls |-> <<>>,
   after |-> image_handle]

\* cimutil.rs:210-216, 246-252: one pass of the loop over the objects
main_add ==
  /\ pc = "loop"
  /\ objects # <<>>
  /\ LET o == Head(objects)
         rel == get_relative_path(o)
         src == get_src_path(fs, o)
     IN IF ~rel.ok
          THEN Returns(AccessorFailed("get_relative_path", rel.result))
               /\ FailsWithImage
        ELSE IF ~src.ok
          THEN Returns(AccessorFailed("get_src_path", src.result))
               /\ FailsWithImage
        ELSE \E fail \in ReachedSteps(~IsFilePath(src.path),
                                      IsReparsePath(src.path)) :
               \E failAt \in PassesOf(fail, SizeOfPath(src.path)) :
                 LET run == create_file_run(image_handle, rel.path,
                                            ~IsFilePath(src.path),
                                            IsReparsePath(src.path),
                                            SizeOfPath(src.path), fail, failAt)
                 IN /\ Returns(run)
                    /\ IF run.result = Ok
                         THEN pc' = pc /\ exit' = exit
                         ELSE FailsWithImage
  /\ objects' = Tail(objects)
  /\ UNCHANGED <<alive, fs, command>>
  /\ UNCHANGED volVars

\* cimutil.rs:219, 255
main_commit ==
  /\ pc = "loop"
  /\ objects = <<>>
  /\ \E accepted \in BOOLEAN :
       LET run == commit_run(image_handle, accepted)
       IN /\ Returns(run)
          /\ pc' = "return"
          /\ exit' = IF run.result = Ok THEN "Ok" ELSE "Err"
  /\ UNCHANGED <<alive, fs, command, objects>>
  /\ UNCHANGED volVars

\* cimutil.rs:286 and every `?` after Image::new: the image goes out of scope
main_return ==
  /\ pc = "return"
  /\ pc' = "done"
  /\ alive' = FALSE
  /\ Returns(drop_run(image_handle))
  /\ UNCHANGED <<fs, command, objects, exit>>
  /\ UNCHANGED volVars

\* Another process removes a file or a directory with what is under it.
unlink ==
  /\ pc \in {"parse", "create", "loop"}
  /\ \E p \in fs \ {<<"w">>} :
       fs' = {q \in fs : ~IsPrefixOf(p, q)}
  /\ UNCHANGED <<alive, image_handle, engine, last, pc, command, objects, exit>>
  /\ UNCHANGED volVars

NextMain ==
  \/ main_start
  \/ main_parse
  \/ main_create
  \/ main_add
  \/ main_commit
  \/ main_return
  \/ unlink

SpecMain == InitMain /\ [][NextMain]_vars

(***************************************************************************)
(* A descriptor driven by a caller of the library (object.rs), on a        *)
(* filesystem that changes under it.  objects holds the one descriptor;    *)
(* last holds the last call on it: the descriptor before and after, the    *)
(* argument, the result, the ancestors and the path returned, and whether  *)
(* the call asked the filesystem anything.                                 *)
(***************************************************************************)
ObjSrcPaths ==
  {<<"a">>, <<"a", "b", "f">>, <<".">>, <<".", "a", "b">>,
   <<"..", "w", "a">>, <<"/", "w", "a", "b", "f">>,
   <<"C:", "/", "w", "a">>, <<"UNC", "/", "w", "a">>,
   <<"VERB", "/", "w", "a">>, <<"a", "b", "f", "..", "f">>, <<"x">>}

\* every path the filesystem of a descriptor can hold
AllPaths == Tree \cup {<<"w", "w">>}

\* The order of Path: component by component, a proper prefix first
\* (object.rs:9, the derive of Ord on PathBuf fields).
Names == <<"/", ".", "..", "C:", "UNC", "VERB",
           "a", "b", "f", "sh", "vb", "w", "x">>
Rank(c) == CHOOSE i \in 1..Len(Names) : Names[i] = c
RECURSIVE PathLess(_, _)
PathLess(p, q) ==
  IF q = <<>> THEN FALSE
  ELSE IF p = <<>> THEN TRUE
  ELSE IF Head(p) # Head(q) THEN Rank(Head(p)) < Rank(Head(q))
  ELSE PathLess(Tail(p), Tail(q))

\* The derived order of Object: relative_path, then src (object.rs:9-17).
ObjectLess(x, y) ==
  \/ PathLess(x.relative_path, y.relative_path)
  \/ x.relative_path = y.relative_path /\ PathLess(x.src, y.src)

\* The order in which a BTreeSet<Object> is iterated (object.rs:36).
BTreeOrder(set) ==
  CHOOSE s \in [1..Cardinality(set) -> set] :
    \A i, j \in 1..Cardinality(set) : i < j => ObjectLess(s[i], s[j])

NoPath == <<>>

resolve_run(files, o, parse_ancestors) ==
  LET r == resolve_relative_path(files, o, parse_ancestors)
  IN [op |-> "resolve_relative_path", before |-> o,
      parse_ancestors |-> parse_ancestors,
      result |-> IF r.ok THEN Ok ELSE "InvalidPath",
      obj |-> r.obj, ancestors |-> r.ancestors,
      order |-> BTreeOrder(r.ancestors),
      touched |-> ~IsResolved(o), path |-> NoPath]

get_relative_path_run(o) ==
  LET r == get_relative_path(o)
  IN [op |-> "get_relative_path", before |-> o, parse_ancestors |-> FALSE,
      result |-> r.result, obj |-> o, ancestors |-> {}, order |-> <<>>,
      touched |-> FALSE, path |-> r.path]

get_src_path_run(files, o) ==
  LET r == get_src_path(files, o)
  IN [op |-> "get_src_path", before |-> o, parse_ancestors |-> FALSE,
      result |-> r.result, obj |-> o, ancestors |-> {}, order |-> <<>>,
      touched |-> TRUE, path |-> r.path]

Object_new_run(src) ==
  [op |-> "new", before |-> Object_new(src), parse_ancestors |-> FALSE,
   result |-> Ok, obj |-> Object_new(src), ancestors |-> {}, order |-> <<>>,
   touched |-> FALSE, path |-> NoPath]

objVars == <<alive, image_handle, engine, pc, command, exit>>

InitObject ==
  /\ alive = FALSE
  /\ image_handle = None
  /\ engine = EngineInit
  /\ pc = "object"
  /\ command = NoCommand
  /\ exit = "running"
  /\ volume = NoGuid
  /\ mounted = {}
  /\ fs \in {Tree, AllPaths}
  /\ \E src \in ObjSrcPaths :
       /\ objects = <<Object_new(src)>>
       /\ last = Object_new_run(src)

Object_resolve_relative_path ==
  /\ pc = "object"
  /\ \E parse_ancestors \in BOOLEAN :
       LET run == resolve_run(fs, objects[1], parse_ancestors)
       IN /\ objects' = <<run.obj>>
          /\ last' = run
  /\ UNCHANGED <<fs, objVars>>
  /\ UNCHANGED volVars

Object_get_relative_path ==
  /\ pc = "object"
  /\ last' = get_relative_path_run(objects[1])
  /\ UNCHANGED <<fs, objects, objVars>>
  /\ UNCHANGED volVars

Object_get_src_path ==
  /\ pc = "object"
  /\ last' = get_src_path_run(fs, objects[1])
  /\ UNCHANGED <<fs, objects, objVars>>
  /\ UNCHANGED volVars

\* something else removes a path and what lies under it
remove_path ==
  /\ pc = "object"
  /\ \E p \in fs : fs' = {q \in fs : ~IsPrefixOf(p, q)}
  /\ UNCHANGED <<objects, last, objVars>>
  /\ UNCHANGED volVars

\* something else creates a path whose parent exists
create_path ==
  /\ pc = "object"
  /\ \E p \in AllPaths \ fs :
       /\ Len(p) = 1 \/ (SubSeq(p, 1, Len(p) - 1) \in fs
                         /\ ~IsFilePath(SubSeq(p, 1, Len(p) - 1)))
       /\ fs' = fs \cup {p}
  /\ UNCHANGED <<objects, last, objVars>>
  /\ UNCHANGED volVars

NextObject ==
  \/ Object_resolve_relative_path
  \/ Object_get_relative_path
  \/ Object_get_src_path
  \/ remove_path
  \/ create_path

SpecObject == InitObject /\ [][NextObject]_vars

(***************************************************************************)
(* The volume of a session (image.rs:66-72, 328-403): with_volume, mount   *)
(* and mount_volume in any order, against an engine that accepts or        *)
(* rejects each call.  An identifier is a token; the text of one is a      *)
(* sequence of tokens, so that `{g}` and `g` are different texts.  An      *)
(* Option<String> is <<>> for None and <<text>> for Some(text).            *)
(***************************************************************************)
Guids == {"g1", "g2"}
GuidTexts == {<<"g1">>, <<"g2">>, <<"{", "g1", "}">>, <<"zz">>}
MountPoints == {"m1", "m2"}
\* HRESULTs the engine and the OS answer with; RPC_STATUS of UuidCreate
Statuses == {0, 1, -5}
UuidStatuses == {0, 1824}
\* HRESULT::ok(): an error when the code is negative
is_ok(status) == status >= 0

\* GUID::try_from(&str): the bare text of an identifier and nothing else
GUID_try_from(text) ==
  IF Len(text) = 1 /\ text[1] \in Guids
    THEN [ok |-> TRUE, guid |-> text[1]]
    ELSE [ok |-> FALSE, guid |-> NoGuid]

\* Faulty variant: the bare identifier stands for the device path.
VolumePath_bare(guid) == <<guid>>

\* format!("\\\\?\\Volume{{{:?}}}\\", volume) (image.rs:374)
VolumePath(guid) == <<"\\\\?\\", "Volume{", guid, "}", "\\">>
\* mountpoint.push("\\") (image.rs:375-378)
MountPointPath(mountpoint) == <<mountpoint, "\\">>

VolCall(name, guid, point, status) ==
  [call |-> name, guid |-> guid, point |-> point, status |-> status]

\* Faulty variant: the cached identifier wins over the explicit one.
IdentifierChoice_cachedFirst(explicit, cached) ==
  IF cached # NoGuid THEN "cached"
  ELSE IF explicit # <<>> THEN "explicit" ELSE "fresh"

\* Where mount takes the identifier from (image.rs:333-349).
IdentifierChoice(explicit, cached) ==
  IF explicit # <<>> THEN "explicit"
  ELSE IF cached # NoGuid THEN "cached" ELSE "fresh"

\* Image::volume once the identifier is chosen: self.volume.take() runs
\* only in the second branch of the choice (image.rs:336).
VolumeAfterChoice(choice, cached) ==
  IF choice = "explicit" THEN cached ELSE NoGuid

\* Faulty variant: the identifier is cached before the engine answers.
VolumeAfterMount_eager(taken, guid, status) == guid

\* Image::volume after CimMountImage answered (image.rs:353-362).
VolumeAfterMount(taken, guid, status) ==
  IF is_ok(status) THEN guid ELSE taken

mount_run(cached, explicit, uuid, fresh, status) ==
  LET choice == IdentifierChoice(explicit, cached)
      parsed == GUID_try_from(IF explicit = <<>> THEN <<>> ELSE explicit[1])
      taken == VolumeAfterChoice(choice, cached)
      guid == CASE choice = "explicit" -> parsed.guid
                [] choice = "cached" -> cached
                [] OTHER -> fresh
      generate == IF choice = "fresh"
                    THEN <<VolCall("UuidCreate", fresh, <<>>, uuid)>>
                    ELSE <<>>
      run == [op |-> "mount", before |-> cached, explicit |-> explicit,
              point |-> <<>>]
  IN IF choice = "explicit" /\ ~parsed.ok
       THEN run @@ [result |-> "InvalidGuid", status |-> 0, calls |-> <<>>,
                    after |-> cached, guid |-> NoGuid]
     ELSE IF choice = "fresh" /\ uuid # 0
       THEN run @@ [result |-> "IdGenerationFailed", status |-> 0,
                    calls |-> generate, after |-> taken, guid |-> NoGuid]
     ELSE run @@ [result |-> IF is_ok(status) THEN Ok ELSE "MountFailed",
                  status |-> status,
                  calls |-> Append(generate,
                                   VolCall("CimMountImage", guid, <<>>,
                                           status)),
                  after |-> VolumeAfterMount(taken, guid, status),
                  guid |-> IF is_ok(status) THEN guid ELSE NoGuid]

\* Faulty variant: a bind that is rejected takes the mount back.
mount_volume_run_undoes(cached, mountpoint, status) ==
  LET run == [op |-> "mount_volume", before |-> cached, explicit |-> <<>>,
              point |-> MountPointPath(mountpoint), guid |-> NoGuid]
  IN IF cached = NoGuid
       THEN run @@ [result |-> "NoVolumeCached", status |-> 0,
                    calls |-> <<>>, after |-> cached]
     ELSE IF is_ok(status)
       THEN run @@ [result |-> Ok, status |-> status, after |-> cached,
                    calls |-> <<VolCall("SetVolumeMountPointW", cached,
                                        <<MountPointPath(mountpoint),
                                          VolumePath(cached)>>, status)>>]
     ELSE run @@ [result |-> "MountPointFailed", status |-> status,
                  after |-> NoGuid,
                  calls |-> <<VolCall("SetVolumeMountPointW", cached,
                                      <<MountPointPath(mountpoint),
                                        VolumePath(cached)>>, status),
                              VolCall("CimDismountImage", cached, <<>>, 0)>>]

mount_volume_run(cached, mountpoint, status) ==
  LET run == [op |-> "mount_volume", before |-> cached, explicit |-> <<>>,
              point |-> MountPointPath(mountpoint), after |-> cached,
              guid |-> NoGuid]
  IN IF cached = NoGuid
       THEN run @@ [result |-> "NoVolumeCached", status |-> 0,
                    calls |-> <<>>]
       ELSE run @@ [result |-> IF is_ok(status) THEN Ok
                               ELSE "MountPointFailed",
                    status |-> status,
                    calls |-> <<VolCall("SetVolumeMountPointW", cached,
                                        <<MountPointPath(mountpoint),
                                          VolumePath(cached)>>, status)>>]

\* str::trim_start_matches and str::trim_end_matches: every repetition of
\* the pattern goes
RECURSIVE trim_start_matches(_, _)
trim_start_matches(text, pat) ==
  IF text # <<>> /\ Head(text) = pat
    THEN trim_start_matches(Tail(text), pat) ELSE text
RECURSIVE trim_end_matches(_, _)
trim_end_matches(text, pat) ==
  IF text # <<>> /\ text[Len(text)] = pat
    THEN trim_end_matches(SubSeq(text, 1, Len(text) - 1), pat) ELSE text

\* The texts the Dismount command is given: the three documented forms of
\* each identifier, and others.
DismountTexts ==
  UNION {{<<"Volume{", g, "}">>, <<"{", g, "}">>, <<g>>} : g \in Guids}
    \cup {<<"zz">>, <<"{", "g1">>, <<"Volume{", "zz", "}">>}

\* The Dismount arm of main (cimutil.rs:278-283): no Image is made; the
\* session of this process, if any, is not involved.
dismount_run(cached, text, status) ==
  LET trimmed == trim_end_matches(
                   trim_start_matches(trim_start_matches(text, "Volume{"),
                                      "{"), "}")
      parsed == GUID_try_from(trimmed)
      run == [op |-> "dismount", before |-> cached, after |-> cached,
              explicit |-> <<text>>, point |-> <<>>, guid |-> parsed.guid]
  IN IF ~parsed.ok
       THEN run @@ [result |-> "InvalidGuid", status |-> 0, calls |-> <<>>]
       ELSE run @@ [result |-> IF is_ok(status) THEN Ok
                               ELSE "DismountFailed",
                    status |-> status,
                    calls |-> <<VolCall("CimDismountImage", parsed.guid,
                                        <<>>, status)>>]

with_volume_run(cached, guid) ==
  [op |-> "with_volume", before |-> cached, explicit |-> <<>>,
   point |-> <<>>, after |-> guid, guid |-> NoGuid, result |-> Ok,
   status |-> 0, calls |-> <<>>]

\* the volumes mounted once the calls of a run are made
RECURSIVE MountedAfter(_, _)
MountedAfter(set, calls) ==
  IF calls = <<>> THEN set
  ELSE LET c == Head(calls)
       IN MountedAfter(
            CASE c.call = "CimMountImage" /\ is_ok(c.status) ->
                   set \cup {c.guid}
              [] c.call = "CimDismountImage" /\ is_ok(c.status) ->
                   set \ {c.guid}
              [] OTHER -> set,
            Tail(calls))

VolumeReturns(run) ==
  /\ volume' = run.after
  /\ mounted' = MountedAfter(mounted, run.calls)
  /\ last' = run

sessionVars ==
  <<alive, image_handle, engine, fs, pc, command, objects, exit>>

InitVolume ==
  /\ alive = TRUE
  /\ image_handle = None
  /\ engine = EngineInit
  /\ fs = Tree
  /\ pc = "volume"
  /\ command = NoCommand
  /\ objects = <<>>
  /\ exit = "running"
  /\ volume = NoGuid
  /\ mounted = {}
  /\ last = [with_volume_run(NoGuid, NoGuid) EXCEPT !.op = "new"]

with_volume ==
  /\ pc = "volume"
  /\ \E guid \in Guids : VolumeReturns(with_volume_run(volume, guid))
  /\ UNCHANGED sessionVars

mount ==
  /\ pc = "volume"
  /\ \E explicit \in {<<>>} \cup {<<t>> : t \in GuidTexts},
        uuid \in UuidStatuses, fresh \in Guids, status \in Statuses :
       VolumeReturns(mount_run(volume, explicit, uuid, fresh, status))
  /\ UNCHANGED sessionVars

mount_volume ==
  /\ pc = "volume"
  /\ \E mountpoint \in MountPoints, status \in Statuses :
       VolumeReturns(mount_volume_run(volume, mountpoint, status))
  /\ UNCHANGED sessionVars

dismount ==
  /\ pc = "volume"
  /\ \E text \in DismountTexts, status \in Statuses :
       VolumeReturns(dismount_run(volume, text, status))
  /\ UNCHANGED sessionVars

NextVolume ==
  \/ with_volume
  \/ mount
  \/ mount_volume
  \/ dismount

SpecVolume == InitVolume /\ [][NextVolume]_vars

(***************************************************************************)
(* The copy loop of create_file pass by pass (image.rs:263-299), for       *)
(* sources too large to copy in one step of the model.  A size and the     *)
(* running total are kept as whole chunks of BufLen bytes and the bytes    *)
(* over, so that no number leaves the range of the checker.  `total` is a  *)
(* u32 (it takes its type from `read`): an addition that passes 2^32 wraps *)
(* in a build without overflow checks and panics in a build with them.     *)
(* last holds the loop's state: the size of the source, the build, the     *)
(* passes made, the total, and the bytes of the last read and write.       *)
(***************************************************************************)
TotalBits == 32
\* 2^TotalBits bytes, in chunks of BufLen
ChunksPerWrap == (2 ^ (TotalBits - 2) \div BufLen) * 4

Builds == {"overflow-checks", "wrapping"}

CopySizes ==
  {[chunks |-> 0, rest |-> 5],
   [chunks |-> 1, rest |-> 0],
   [chunks |-> ChunksPerWrap - 1, rest |-> BufLen - 1],
   [chunks |-> ChunksPerWrap, rest |-> 5]}

\* what the read of pass p (from 0) gives: whole chunks, the rest, nothing
ReadOf(size, p) ==
  IF p < size.chunks THEN BufLen
  ELSE IF p = size.chunks THEN size.rest ELSE 0

\* total + read, before the width is applied
TotalPlus(total, read) ==
  [hi |-> total.hi + (total.lo + read) \div BufLen,
   lo |-> (total.lo + read) % BufLen]
Overflows(total) == total.hi >= ChunksPerWrap
Wrapped(total) == [total EXCEPT !.hi = @ % ChunksPerWrap]

\* One pass of the loop (image.rs:266-295): the read, `total += read`, the
\* write, the test of `read == 0`.
copy_pass_run(state) ==
  LET read == ReadOf(state.size, state.pass)
      sum == TotalPlus(state.total, read)
  IN IF Overflows(sum) /\ state.build = "overflow-checks"
       THEN [state EXCEPT !.op = "copy_pass", !.read = read,
                          !.written = 0, !.result = "Panicked"]
       ELSE [state EXCEPT !.op = "copy_pass", !.pass = @ + 1,
                          !.total = Wrapped(sum), !.read = read,
                          !.written = read,
                          !.result = IF read = 0 THEN "EndOfFile"
                                     ELSE "Copying"]

copyVars ==
  <<alive, image_handle, engine, fs, command, objects, exit, volume, mounted>>

\* The loop at its first pass and, for a source of many chunks, at the pass
\* of its last whole chunk, with the total the passes before it have left
\* (one BufLen each, reached by the steps from the first pass as well).
InitCopy ==
  /\ alive = TRUE
  /\ image_handle = None
  /\ engine = EngineInit
  /\ fs = Tree
  /\ command = NoCommand
  /\ objects = <<>>
  /\ exit = "running"
  /\ volume = NoGuid
  /\ mounted = {}
  /\ pc = "copy"
  /\ \E size \in CopySizes, build \in Builds :
       \E pass \in {0} \cup (IF size.chunks > 1 THEN {size.chunks - 1}
                             ELSE {}) :
         last = [op |-> "copy_start", size |-> size, build |-> build,
                 pass |-> pass, total |-> [hi |-> pass, lo |-> 0],
                 read |-> 0, written |-> 0, result |-> "Copying"]

copy_pass ==
  /\ pc = "copy"
  /\ last' = copy_pass_run(last)
  /\ pc' = CASE last'.result = "Panicked" -> "panicked"
             [] last'.result = "EndOfFile" -> "close"
             [] OTHER -> "copy"
  /\ UNCHANGED copyVars

\* image.rs:298-299: CimCloseStream and CloseHandle
copy_close ==
  /\ pc = "close"
  /\ last' = [last EXCEPT !.op = "copy_close", !.result = Ok]
  /\ pc' = "copied"
  /\ UNCHANGED copyVars

NextCopy ==
  \/ copy_pass
  \/ copy_close

SpecCopy == InitCopy /\ [][NextCopy]_vars

(***************************************************************************)
(* Properties.                                                             *)
(***************************************************************************)
HasCall(calls, name) == \E i \in 1..Len(calls) : calls[i].call = name
CountCalls(calls, name) == Cardinality({i \in 1..Len(calls) : calls[i].call = name})

\* create_file ran with a handle present
TookHandle == last.op = "create_file" /\ last.before # None

C2_CommitConsumes ==
  /\ [](last.op = "commit" =>
          /\ image_handle = None
          /\ IF last.before = None
               THEN last.result = NotOpen /\ last.calls = <<>>
               ELSE /\ last.result \in {Ok, CommitFailed}
                    /\ last.calls[1].call = "CimCommitImage"
                    /\ last.calls[1].h = last.before
                    /\ (last.result = Ok) = last.calls[1].ok
                    /\ CountCalls(last.calls, "CimCommitImage") = 1)
  /\ [][(last.op = "commit" /\ last'.op = "commit") =>
          (last'.result = NotOpen /\ engine' = engine /\ image_handle' = None)]_vars

\* a commit on a session whose only handle an earlier commit consumed
C2_Witness ==
  /\ last.op = "commit"
  /\ last.result = NotOpen
  /\ engine.images = 1
  /\ engine.commits[1] = 1
  /\ engine.imageCloses[1] = 1

\* C3: every image handle the engine handed out is either the one the live
\* session holds, and then it was never closed, or it was closed exactly
\* once; a handle never handed out was never closed; no CimCreateFile or
\* CimCommitImage was made with a handle closed before.  Once the session is
\* dropped it holds nothing, so every handle was closed exactly once.
C3_EachHandleClosedOnce ==
  /\ \A h \in Images :
       engine.imageCloses[h] =
         (IF h <= engine.images /\ h # image_handle THEN 1 ELSE 0)
  /\ image_handle # None => alive /\ image_handle <= engine.images
  /\ ~engine.stale

\* create succeeded on an Open session: the handle it held is closed, once
C3_Witness ==
  /\ last.op = "create"
  /\ last.result = Ok
  /\ last.before = 1
  /\ image_handle = 2
  /\ engine.imageCloses[1] = 1
  /\ engine.imageCloses[2] = 0

\* C4 (as stated): every stream handle CimCreateFile handed out has been
\* closed exactly once when create_file has returned.
C4_StreamClosedOnEveryPath ==
  \A s \in Sources : s <= engine.streams => engine.streamCloses[s] = 1

\* the relative path resolution gives a source path
RelOf(src) ==
  ComponentsLoop([relative_path |-> <<>>, root |-> <<>>], src).relative_path

\* C5 (as stated): for every path added to an image, each of its ancestor
\* directories was added to the same image strictly earlier.
C5_AncestorsAddedFirst ==
  \A h \in Images :
    LET adds == engine.added[h]
    IN \A i \in 1..Len(adds) :
         \A k \in 1..(Len(adds[i]) - 1) :
           \E j \in 1..(i - 1) : adds[j] = SubSeq(adds[i], 1, k)

NoCommit == \A h \in Images : engine.commits[h] = 0

\* C6: in the pipeline the engine's commit is invoked only after create
\* succeeded and the create_file of every object of the command line
\* succeeded (each path accepted by the engine, each stream and source
\* closed, the handle never closed before); a failure of create, of an
\* accessor or of create_file ends the run with an error and without a
\* commit; a run that ended before an image existed made no engine call; and
\* when main is done every handle obtained is released, exactly once.
C6_CommitOnlyAfterAllAdded ==
  /\ ~NoCommit =>
       /\ pc \in {"return", "done"}
       /\ objects = <<>>
       /\ engine.images = 1
       /\ engine.commits[1] = 1
       /\ ~engine.stale
       /\ engine.added[1] = [i \in 1..Len(command.list) |-> RelOf(command.list[i])]
       /\ engine.streams = Len(command.list)
       /\ engine.sources = Len(command.list)
       /\ \A s \in 1..Len(command.list) :
            engine.streamCloses[s] = 1 /\ engine.sourceCloses[s] = 1
  /\ (last.op \in {"create", "create_file", "get_relative_path", "get_src_path"}
        /\ last.result # Ok) =>
       pc = "return" /\ exit = "Err" /\ NoCommit
  /\ pc = "done" =>
       /\ exit \in {"Ok", "Err"}
       /\ image_handle = None
       /\ \A h \in Images :
            engine.imageCloses[h] = (IF h <= engine.images THEN 1 ELSE 0)
       /\ exit = "Ok" => engine.commits[1] = 1
       /\ engine.images = 0 => exit = "Err" /\ NoCommit

\* the second of two objects failed: the run ended in error, the image with
\* the first object in it was released and never committed
C6_Witness ==
  /\ pc = "done"
  /\ exit = "Err"
  /\ Len(command.list) = 2
  /\ engine.images = 1
  /\ Len(engine.added[1]) = 1
  /\ engine.imageCloses[1] = 1
  /\ NoCommit

\* C7: the drop of an Image that is Open makes one native call, the
\* CimCloseImage of its handle, which is then closed exactly once; the
\* engine's commit is called by Image::commit alone.
C7_DropReleasesWithoutCommit ==
  /\ []((last.op = "drop" /\ last.before # None) =>
          /\ last.calls = <<Call("CimCloseImage", last.before, 0, <<>>, TRUE)>>
          /\ engine.imageCloses[last.before] = 1
          /\ image_handle = None)
  /\ [](HasCall(last.calls, "CimCommitImage") => last.op = "commit")
  /\ [][engine'.commits # engine.commits => last'.op = "commit"]_vars

\* an Open image with an object in it was dropped, uncommitted
C7_Witness ==
  /\ last.op = "drop"
  /\ last.before # None
  /\ engine.commits[last.before] = 0
  /\ Len(engine.added[last.before]) = 1
  /\ engine.imageCloses[last.before] = 1

ReparseFailed == TookHandle /\ last.result = "BufferOverflow"

C9_CreateFailureLeavesHandle ==
  /\ [](last.op = "create" =>
          IF last.calls[1].ok
            THEN /\ last.result = Ok
                 /\ image_handle = engine.images
                 /\ image_handle # None
                 /\ engine.imageCloses[image_handle] = 0
            ELSE /\ last.result = CreateFailed
                 /\ image_handle = last.before
                 /\ last.calls = <<Call("CimCreateImage", None, 0,
                                        last.calls[1].path, FALSE)>>)
  /\ [][(last.op = "create" /\ last.result # Ok /\ last.before = None
           /\ last'.op \in {"create_file", "commit"}) =>
          (last'.result = NotOpen /\ image_handle' = None)]_vars

\* the engine rejected the create of an Unopened session
C9_Witness ==
  /\ last.op = "create"
  /\ last.result = CreateFailed
  /\ last.before = None
  /\ image_handle = None

\* C10: create_file on a session with no handle fails with NotOpen and
\* makes no native call: no source is opened, the engine is not called, and
\* the session is as it was.
C10_NoHandleNoCall ==
  /\ []((last.op = "create_file" /\ last.before = None) =>
          /\ last.result = NotOpen
          /\ last.calls = <<>>
          /\ image_handle = None)
  /\ [][(image_handle = None /\ last'.op = "create_file") =>
          /\ last'.result = NotOpen
          /\ engine' = engine
          /\ image_handle' = None
          /\ alive' = alive]_vars

\* create_file on a session whose handle commit consumed
C10_Witness ==
  /\ last.op = "create_file"
  /\ last.before = None
  /\ last.result = NotOpen
  /\ alive
  /\ engine.images = 1
  /\ engine.commits[1] = 1


(***************************************************************************)
(* Properties of the descriptor (SpecObject).                              *)
(***************************************************************************)
IsNormalPath(p) == \A i \in 1..Len(p) : Kind(p[i]) = "Normal"
Resolved(run) == run.op = "resolve_relative_path" /\ run.result = Ok
\* the strict non-empty ancestors of a relative path
Prefixes(rel) ==
  {SubSeq(rel, 1, k) : k \in 1..(IF rel = <<>> THEN 0 ELSE Len(rel) - 1)}

\* C11: after every successful resolve_relative_path the relative path is
\* non-empty, so that get_relative_path succeeds, and holds no root or
\* prefix component.  (Violated: the source `.` resolves to nothing.)
C11_ResolvedIsNonEmpty ==
  Resolved(last) =>
    /\ last.obj.relative_path # <<>>
    /\ get_relative_path(last.obj).ok
    /\ IsNormalPath(last.obj.relative_path)

\* the components of a path that are normal names
NormalComponents(src) ==
  LET IsNormal(c) == Kind(c) = "Normal" IN SelectSeq(src, IsNormal)

\* the names a path gives to the image: its normal components and the name
\* its UNC or verbatim prefix carries
NamesGiven(src) ==
  LET Gives(c) == Kind(c) \in {"Normal", "UNC", "Verbatim"}
      kept == SelectSeq(src, Gives)
  IN [i \in 1..Len(kept) |->
        CASE Kind(kept[i]) = "UNC" -> Share(kept[i])
          [] Kind(kept[i]) = "Verbatim" -> VerbatimName(kept[i])
          [] OTHER -> kept[i]]

\* C12 as stated: the relative path is exactly the normal components of the
\* source in their order; every prefix, root, `.` and `..` gives nothing.
C12_OnlyNormalComponents ==
  Resolved(last) => last.obj.relative_path = NormalComponents(last.obj.src)

\* C12 amended: the relative path is the normal components of the source in
\* their order, after the share of a UNC prefix or the name of a verbatim
\* prefix; a drive prefix, the root, `.` and `..` give nothing.
C12_PrefixNameKept ==
  Resolved(last) => last.obj.relative_path = NamesGiven(last.obj.src)

\* a UNC source has resolved: the share leads its relative path
C12_Witness ==
  /\ Resolved(last)
  /\ last.touched
  /\ last.obj.src = <<"UNC", "/", "w", "a">>
  /\ last.obj.relative_path = <<"sh", "w", "a">>

\* C13: the ancestors resolve_relative_path(true) returns are one per strict
\* non-empty ancestor of the relative path that is not a file; an ancestor
\* that is a file leaves out itself alone.  (Violated: the loop ends at the
\* first ancestor that is a file.)
C13_FileAncestorExcludesOnlyItself ==
  [][(Object_resolve_relative_path /\ Resolved(last')
        /\ last'.touched /\ last'.parse_ancestors)
       => {a.relative_path : a \in last'.ancestors}
            = {p \in Prefixes(last'.obj.relative_path) : ~is_file(fs, p)}]_vars

\* the root the components loop leaves for a source
RootOf(src) == ComponentsLoop([relative_path |-> <<>>, root |-> <<>>], src).root
\* every ancestor level of the source is a directory on disk
LevelsExist(files, src) ==
  /\ Canonicalizes(files, src)
  /\ \A p \in Prefixes(NamesGiven(src)) :
       /\ Canonicalizes(files, RootOf(src) \o p)
       /\ ~IsFilePath(Walk(Cwd, RootOf(src) \o p))

\* C14: for a source whose N ancestor levels all exist on disk, the first
\* resolve_relative_path(true) returns N descriptors, one per prefix of the
\* relative path and resolved to it, iterated parent before child.
\* (Violated: a file of the working directory that has the name of the
\* ancestor ends the loop.)
C14_AllAncestorsReturned ==
  [][(Object_resolve_relative_path /\ last'.touched /\ last'.parse_ancestors
        /\ LevelsExist(fs, last'.before.src))
       => /\ last'.result = Ok
          /\ last'.ancestors =
               {[relative_path |-> p, src |-> RootOf(last'.before.src) \o p] :
                  p \in Prefixes(last'.obj.relative_path)}
          /\ Cardinality(last'.ancestors)
               = Cardinality(Prefixes(last'.obj.relative_path))
          /\ \A i, j \in 1..Len(last'.order) :
               IsPrefixOf(last'.order[i].relative_path,
                          last'.order[j].relative_path) => i <= j]_vars


\* C15: resolve_relative_path on a resolved descriptor (one whose relative
\* path is set) changes neither field, asks the filesystem nothing and
\* returns Ok with no ancestors, whatever became of the source; and a
\* resolution that follows a successful one leaves the relative path as the
\* first one set it.
C15_ResolveIdempotent ==
  [][Object_resolve_relative_path
       => /\ objects[1].relative_path # <<>>
               => /\ objects' = objects
                  /\ last'.result = Ok
                  /\ ~last'.touched
                  /\ last'.ancestors = {}
          /\ Resolved(last)
               => objects'[1].relative_path = objects[1].relative_path]_vars

\* a resolved descriptor has been resolved again after its source was
\* removed
C15_Witness ==
  /\ Resolved(last)
  /\ last.before.relative_path # <<>>
  /\ last.obj = last.before
  /\ Walk(Cwd, last.obj.src) \notin fs

\* C16: resolve_relative_path on an unresolved descriptor whose source does
\* not canonicalize fails with InvalidPath, leaves the descriptor unresolved
\* and returns no ancestor.
C16_ResolveFailsOnMissingSource ==
  [][(Object_resolve_relative_path /\ objects[1].relative_path = <<>>
        /\ Walk(Cwd, objects[1].src) \notin fs)
       => /\ last'.result = "InvalidPath"
          /\ objects' = objects
          /\ objects'[1].relative_path = <<>>
          /\ last'.ancestors = {}]_vars

\* the resolution of a source that does not exist has failed
C16_Witness ==
  /\ last.op = "resolve_relative_path"
  /\ last.result = "InvalidPath"
  /\ last.parse_ancestors
  /\ last.obj = Object_new(<<"x">>)
  /\ objects = <<Object_new(<<"x">>)>>

\* C17: get_relative_path fails with Unresolved on a descriptor as
\* Object::new made it (no relative path set), returns the stored relative
\* path on any other, and never changes the descriptor.
C17_RelativePathOnlyWhenResolved ==
  [][Object_get_relative_path
       => /\ objects' = objects
          /\ objects[1].relative_path = <<>>
               => last'.result = "Unresolved" /\ last'.path = NoPath
          /\ objects[1].relative_path # <<>>
               => /\ last'.result = Ok
                  /\ last'.path = objects[1].relative_path]_vars

\* get_relative_path has failed on a descriptor fresh from Object::new
C17_Witness ==
  /\ last.op = "get_relative_path"
  /\ last.result = "Unresolved"
  /\ \E src \in ObjSrcPaths : last.before = Object_new(src)
  /\ objects = <<last.before>>

\* C18: get_src_path answers from the filesystem as it is at the call: Ok
\* with the canonical path while the source exists, InvalidPath when it
\* does not, whether or not the descriptor was resolved or asked before.
C18_SrcPathFollowsFilesystem ==
  [][Object_get_src_path
       => /\ objects' = objects
          /\ Walk(Cwd, objects[1].src) \in fs
               => /\ last'.result = Ok
                  /\ last'.path = Walk(Cwd, objects[1].src)
          /\ Walk(Cwd, objects[1].src) \notin fs
               => last'.result = "InvalidPath"]_vars

\* get_src_path has failed on a descriptor that was resolved while its
\* source existed
C18_Witness ==
  /\ last.op = "get_src_path"
  /\ last.result = "InvalidPath"
  /\ last.obj.relative_path # <<>>


(***************************************************************************)
(* Properties of the volume (SpecVolume).                                  *)
(***************************************************************************)
\* the call a run ends with
LastCall(run) == run.calls[Len(run.calls)]
EngineRejectedMount(run) ==
  /\ run.op = "mount"
  /\ run.calls # <<>>
  /\ LastCall(run).call = "CimMountImage"
  /\ LastCall(run).status < 0

\* C19: mount takes the identifier from the explicit text when one is
\* given, whatever is cached; else from the session's cache; else from
\* UuidCreate.  The engine is asked to mount under that identifier and no
\* other, and when it accepts, mount returns it and the session caches it.
C19_IdentifierOrder ==
  last.op = "mount" =>
    /\ (last.explicit # <<>> /\ Len(last.explicit[1]) = 1
          /\ last.explicit[1][1] \in Guids)
         => last.calls
              = <<VolCall("CimMountImage", last.explicit[1][1], <<>>,
                          last.status)>>
    /\ (last.explicit = <<>> /\ last.before # NoGuid)
         => last.calls
              = <<VolCall("CimMountImage", last.before, <<>>, last.status)>>
    /\ (last.explicit = <<>> /\ last.before = NoGuid)
         => /\ last.calls[1].call = "UuidCreate"
            /\ last.calls[1].status = 0
                 => /\ Len(last.calls) = 2
                    /\ last.calls[2]
                         = VolCall("CimMountImage", last.calls[1].guid, <<>>,
                                   last.status)
    /\ last.result = Ok
         => /\ LastCall(last).call = "CimMountImage"
            /\ last.guid = LastCall(last).guid
            /\ volume = last.guid
            /\ last.guid \in mounted

\* a mount with an explicit identifier has succeeded on a session that had
\* another one cached
C19_Witness ==
  /\ last.op = "mount"
  /\ last.result = Ok
  /\ last.explicit = <<(<<"g2">>)>>
  /\ last.before = "g1"
  /\ volume = "g2"

\* C20: when the engine rejects the mount, mount fails with MountFailed and
\* the engine's status and caches nothing: the session holds no identifier
\* or the one it held, and one that held none holds none, so that a
\* mount_volume that follows fails with NoVolumeCached without a call.
C20_RejectedMountCachesNothing ==
  /\ [](EngineRejectedMount(last)
          => /\ last.result = "MountFailed"
             /\ last.status = LastCall(last).status
             /\ last.guid = NoGuid
             /\ volume \in {NoGuid, last.before}
             /\ last.before = NoGuid => volume = NoGuid)
  /\ [][(EngineRejectedMount(last) /\ last.before = NoGuid
           /\ last'.op = "mount_volume")
          => last'.result = "NoVolumeCached" /\ last'.calls = <<>>]_vars

\* the engine has rejected a mount under an explicit identifier on a session
\* that had none cached, and the session has none
C20_Witness ==
  /\ EngineRejectedMount(last)
  /\ last.result = "MountFailed"
  /\ last.explicit = <<(<<"g1">>)>>
  /\ last.before = NoGuid
  /\ volume = NoGuid


\* C21: mount_volume on a session with no identifier cached fails with
\* NoVolumeCached and makes no call; on a session with one it calls
\* SetVolumeMountPointW once, for the mountpoint with its trailing separator
\* and the device path \\?\Volume{id}\ of the cached identifier.
C21_BindNeedsCachedVolume ==
  last.op = "mount_volume" =>
    /\ last.before = NoGuid
         => last.result = "NoVolumeCached" /\ last.calls = <<>>
    /\ last.before # NoGuid
         => /\ Len(last.calls) = 1
            /\ last.calls[1].call = "SetVolumeMountPointW"
            /\ last.calls[1].point[1] = last.point
            /\ last.calls[1].point[2]
                 = <<"\\\\?\\", "Volume{", last.before, "}", "\\">>
            /\ last.result \in {Ok, "MountPointFailed"}
            /\ last.result = Ok <=> last.status >= 0

\* a mountpoint has been bound to the volume of the identifier that an
\* earlier call cached
C21_Witness ==
  /\ last.op = "mount_volume"
  /\ last.result = Ok
  /\ last.before = "g1"
  /\ "g1" \in mounted
  /\ last.calls[1].point
       = <<(<<"m1", "\\">>), (<<"\\\\?\\", "Volume{", "g1", "}", "\\">>)>>


\* C22: a mount_volume whose bind is rejected undoes nothing: it makes the
\* one bind call and no dismount, the volumes mounted and the identifier
\* cached are as before, and a mount_volume that follows binds again, for
\* the same identifier.
C22_FailedBindKeepsMount ==
  /\ [][(mount_volume /\ last'.result = "MountPointFailed")
          => /\ mounted' = mounted
             /\ volume' = volume
             /\ volume' # NoGuid
             /\ Len(last'.calls) = 1
             /\ last'.calls[1].call = "SetVolumeMountPointW"]_vars
  /\ [][(last.op = "mount_volume" /\ last.result = "MountPointFailed"
           /\ mount_volume)
          => /\ Len(last'.calls) = 1
             /\ last'.calls[1].call = "SetVolumeMountPointW"
             /\ last'.calls[1].guid = last.before]_vars

\* the bind of a mounted volume has been rejected: the volume is mounted
\* and its identifier cached
C22_Witness ==
  /\ last.op = "mount_volume"
  /\ last.result = "MountPointFailed"
  /\ volume = "g1"
  /\ "g1" \in mounted

\* the three documented texts of an identifier
DocumentedForms(g) == {<<"Volume{", g, "}">>, <<"{", g, "}">>, <<g>>}

\* C23: dismount given Volume{g}, {g} or g calls CimDismountImage once with
\* g and touches no session; given any other text it fails without a call.
\* (Violated: the unbalanced text `{g` is trimmed to g and dismounted.)
C23_DismountParsesThreeForms ==
  last.op = "dismount" =>
    /\ \A g \in Guids :
         last.explicit[1] \in DocumentedForms(g)
           => /\ last.calls
                   = <<VolCall("CimDismountImage", g, <<>>, last.status)>>
              /\ volume = last.before
              /\ image_handle = None
    /\ (\A g \in Guids : last.explicit[1] \notin DocumentedForms(g))
         => last.calls = <<>> /\ last.result = "InvalidGuid"


(***************************************************************************)
(* Properties of create_file and of the pipeline around it.                *)
(***************************************************************************)
\* every stream the engine has handed out is closed
NoStreamOpen(e) == \A st \in 1..e.streams : e.streamCloses[st] = 1

\* C24: when the source of an object is gone by the time the loop of main
\* comes to it, the pass fails with InvalidPath from get_src_path, without a
\* native call; when it goes after that, CreateFileW fails and create_file
\* returns InvalidPath.  Either way CimCreateFile is not called for the
\* object and no stream is open.
C24_DeletedSourceFailsBeforeEngine ==
  /\ [][(pc = "loop" /\ objects # <<>> /\ fs' = fs
           /\ Walk(Cwd, Head(objects).src) \notin fs)
          => /\ last'.op = "get_src_path"
             /\ last'.result = "InvalidPath"
             /\ last'.calls = <<>>
             /\ engine' = engine
             /\ NoStreamOpen(engine')
             /\ exit' = "Err"]_vars
  /\ []((last.op = "create_file" /\ last.calls # <<>>
           /\ last.calls[1].call = "CreateFileW" /\ ~last.calls[1].ok)
          => /\ last.result = "InvalidPath"
             /\ ~HasCall(last.calls, "CimCreateFile")
             /\ NoStreamOpen(engine))

\* main has failed on an object whose source was removed after the parse,
\* with the image created
C24_Witness ==
  /\ last.op = "get_src_path"
  /\ last.result = "InvalidPath"
  /\ engine.images = 1
  /\ exit = "Err"
  /\ fs # Tree


\* the place of the one call of this name in a run
IndexOf(calls, name) == CHOOSE i \in 1..Len(calls) : calls[i].call = name
\* the bytes the writes of a run carry, together
RECURSIVE BytesWritten(_)
BytesWritten(calls) ==
  IF calls = <<>> THEN 0
  ELSE (IF Head(calls).call = "CimWriteStream" THEN Head(calls).n ELSE 0)
       + BytesWritten(Tail(calls))
\* a create_file that has succeeded on a source that is no directory
CopiedFile(run) ==
  /\ run.op = "create_file"
  /\ run.result = Ok
  /\ HasCall(run.calls, "GetFileSizeEx")

\* C25: for a source that is no directory, CimCreateFile is followed by
\* reads and writes in turn, each of at most 65536 bytes and each write of
\* the bytes just read; the reads give bytes until one gives none, the
\* write of no bytes that follows it is the last, then the stream is
\* closed, and the writes carry as many bytes as the source has.
C25_CopyInChunks ==
  CopiedFile(last) =>
    LET calls == last.calls
        c == IndexOf(calls, "CimCreateFile")
        k == IndexOf(calls, "CimCloseStream")
        pairs == (k - c - 1) \div 2
    IN /\ CountCalls(calls, "CimCreateFile") = 1
       /\ CountCalls(calls, "CimCloseStream") = 1
       /\ c < k
       /\ k - c - 1 = 2 * pairs
       /\ pairs >= 1
       /\ \A j \in 1..pairs :
            LET rd == calls[c + 2 * j - 1]
                wr == calls[c + 2 * j]
            IN /\ rd.call = "ReadFile" /\ rd.ok
               /\ wr.call = "CimWriteStream" /\ wr.ok
               /\ wr.n = rd.n
               /\ rd.n <= 65536
               /\ rd.n = 0 <=> j = pairs
       /\ \A i \in (k + 1)..Len(calls) :
            calls[i].call \notin {"CimWriteStream", "ReadFile"}
       /\ BytesWritten(calls) = calls[c].n

\* a file of more than one chunk has been copied
C25_Witness ==
  /\ CopiedFile(last)
  /\ CountCalls(last.calls, "CimWriteStream") = 3
  /\ BytesWritten(last.calls) = 65536 + 5

\* a create_file on a directory that has come to CimCreateFile
AddedDirectory(run) ==
  /\ run.op = "create_file"
  /\ HasCall(run.calls, "CimCreateFile")
  /\ ~HasCall(run.calls, "GetFileSizeEx")

\* C26: for a directory, create_file gives CimCreateFile the size 0, reads
\* nothing and writes nothing, and closes the stream it got once.
C26_DirectorySkipsCopy ==
  AddedDirectory(last) =>
    LET cim == last.calls[IndexOf(last.calls, "CimCreateFile")]
    IN /\ cim.n = 0
       /\ ~HasCall(last.calls, "ReadFile")
       /\ ~HasCall(last.calls, "CimWriteStream")
       /\ cim.ok => CountCalls(last.calls, "CimCloseStream") = 1
       /\ ~cim.ok => CountCalls(last.calls, "CimCloseStream") = 0
       /\ \A st \in 1..engine.streams : engine.streamCloses[st] <= 1

\* a directory has been added
C26_Witness ==
  /\ AddedDirectory(last)
  /\ last.result = Ok
  /\ CountCalls(last.calls, "CimCloseStream") = 1

\* C27: the source handle create_file opens is closed once before it
\* returns, on every path, and the error of an earlier call is the one
\* returned.  (Violated: CloseHandle is reached on the last path only.)
C27_SourceHandleClosedOnEveryPath ==
  (last.op = "create_file" /\ last.calls # <<>>
     /\ last.calls[1].call = "CreateFileW" /\ last.calls[1].ok)
    => /\ CountCalls(last.calls, "CloseHandle") = 1
       /\ \A s \in 1..engine.sources : engine.sourceCloses[s] = 1


\* C28: the total the loop keeps changes nothing: at every size of source,
\* those that take the total past 32 bits included, every pass reads and
\* writes what a loop without a total reads and writes, and the loop comes
\* to its end.  (Violated: in a build with overflow checks the addition
\* that passes 2^32 panics.)
C28_TotalNeverMatters ==
  last.op = "copy_pass" =>
    /\ last.result # "Panicked"
    /\ last.read = ReadOf(last.size, last.pass - 1)
    /\ last.written = last.read
    /\ last.result = "EndOfFile" <=> last.read = 0

\* C29: a resolve_relative_path that returns an error leaves the descriptor
\* unresolved, relative_path empty, the error of an ancestor included, so
\* that a retry resolves again.  (Violated: relative_path is assigned
\* before the ancestors are resolved.)
C29_ErrorLeavesUnresolved ==
  (last.op = "resolve_relative_path" /\ last.result # Ok)
    => /\ last.obj.relative_path = <<>>
       /\ objects[1].relative_path = <<>>

\* C30: a mount that fails leaves the cached identifier of the session as
\* it was before the call, however the identifier was chosen.  (Violated:
\* a mount without an explicit identifier takes the cached one out before
\* the engine answers.)
C30_FailedMountKeepsCache ==
  (last.op = "mount" /\ last.result # Ok) => volume = last.before

====
